---- MODULE Spec2Model ----
(***************************************************************************)
(* Verification model of the inviterinfo plugin (plugins.v2/inviterinfo):  *)
(*   - the retrying page fetcher  _IInviterInfoHandler.get_page_source     *)
(*   - the handler registry       ModuleLoader.get_handler_for_site        *)
(*   - the orchestrator           InviterInfo.__get_all_site_inviter_info  *)
(*     with init_plugin / abort_run and the persisted site_data.json       *)
(* The file system is taken to work: reading and writing site_data.json    *)
(* fail only where diskFaults is set, which FaultSpec alone does.          *)
(***************************************************************************)
EXTENDS Integers, Sequences, FiniteSets, TLC

\* ------------------------------------------------------------------------
\* Bounds of the model
\* ------------------------------------------------------------------------
MaxRetry == 3

\* Number of sites the site registry returns (SitesHelper().get_indexers()).
NumSites == 2

\* Number of runs of the site loop started in one behaviour.
MaxRuns == 2

\* Length of the longest handler list given to get_handler_for_site.
MaxHandlers == 3

\* ------------------------------------------------------------------------
\* HTTP fetcher: get_page_source (sites/__init__.py 90-149)
\* ------------------------------------------------------------------------
VARIABLES f_pc, f_retry, f_i, f_attempts, f_sleeps, f_result, f_raised, f_hist

fetchVars == <<f_pc, f_retry, f_i, f_attempts, f_sleeps, f_result, f_raised, f_hist>>

\* Registry lookup as a function of its inputs (module_loader.py 77-107).
VARIABLES sel_url, sel_handlers, sel_plugged, sel_result

selVars == <<sel_url, sel_handlers, sel_plugged, sel_result>>

\* Plugin state (attributes of InviterInfo, __init__.py 47-60) and the file.
VARIABLES
    store,          \* content of site_data.json: site name -> record
    abortFlag,      \* self._abort_flag
    selectedSites,  \* self._selected_sites
    forceRefresh,   \* self._force_refresh
    notify,         \* self._notify
    onlyonce,       \* self._onlyonce
    cronCfg,        \* self._enabled and self._cron
    jobScheduled,   \* self._scheduler holds the periodic job
    siteHandlers,   \* self._site_handlers
    now,            \* the clock, one tick per run started
    initPc,         \* position of init_plugin
    diskFaults      \* whether the environment lets file operations fail

pluginVars == <<store, abortFlag, selectedSites, forceRefresh, notify, onlyonce,
                cronCfg, jobScheduled, siteHandlers, now, initPc, diskFaults>>

\* One activation of __get_all_site_inviter_info per way of starting it.
VARIABLES
    pc,             \* position of the run
    idx,            \* index of `site` in `for site in sites`
    siteData,       \* the local site_data
    forceArg,       \* the parameter force_refresh
    initialCount,   \* initial_count
    curUrl,         \* site.url of the site being processed
    matched,        \* matched_handler
    notes           \* the notifications the run has posted

runVars == <<pc, idx, siteData, forceArg, initialCount, curUrl, matched, notes>>

\* History of a run in progress, kept for the properties only.
VARIABLES
    startStore,     \* content of the file when the run loaded it
    visited,        \* sites whose iteration passed the abort check at the loop top
    lookedUp,       \* sites for which get_handler_for_site was called
    fetched,        \* sites for which a page was requested
    saved,          \* sites whose record the run wrote
    failed,         \* sites one of whose steps raised
    noMatch,        \* sites no handler matched and no probe page fingerprinted
    aborted,        \* the run observed the abort flag
    abortAsked      \* an abort was requested while the run was active

histVars == <<startStore, visited, lookedUp, fetched, saved, failed,
              noMatch, aborted, abortAsked>>

\* One call of get_inviter_info of a handler (nexusphp.py 88-650, mteam.py
\* 27-161): the handler, the position in the method, the requests made, the
\* result of each locate rule on the page, the rule and element taken, the
\* name before and after cleaning, the hrefs of the element, the id, the
\* returned value.
VARIABLES
    g_handler,      \* the class of the handler
    g_pc,           \* position in get_inviter_info
    g_calls,        \* the calls made to fetch pages, in order
    g_hits,         \* elements[0] of each rule of inviter_xpaths on the page
    g_rule,         \* position of found_xpath in inviter_xpaths, 0 for None
    g_elem,         \* inviter_element
    g_raw,          \* inviter_name as extracted (396-548)
    g_name,         \* inviter_name
    g_links,        \* link_elements
    g_id,           \* inviter_id
    g_result        \* what the call returned

genVars ==
    <<g_handler, g_pc, g_calls, g_hits, g_rule, g_elem, g_raw, g_name, g_links, g_id,
      g_result>>

\* The extraction of inviter_id as a function of link_elements (603-639).
VARIABLES id_links, id_result

idVars == <<id_links, id_result>>

\* The session of one handler instance (sites/__init__.py 25-88): the step of a
\* fetch, _session, _initialized, the site_info of the fetch in progress and
\* of the fetch before it.
VARIABLES ses_pc, ses_session, ses_initialized, ses_info, ses_prev

sesVars == <<ses_pc, ses_session, ses_initialized, ses_info, ses_prev>>

\* One call of __save_site_data (__init__.py 1051-1069): the step, the content
\* of the data file, the map being written.
VARIABLES sv_pc, sv_file, sv_data

saveVars == <<sv_pc, sv_file, sv_data>>

\* One call of _get_user_id (sites/__init__.py 151-680): the step, what each
\* candidate page gives, whether the session holds a cookie that names the
\* user, the page in hand, the page and the method that gave the id.
VARIABLES rs_pc, rs_pages, rs_cookie, rs_i, rs_page, rs_used

resVars == <<rs_pc, rs_pages, rs_cookie, rs_i, rs_page, rs_used>>

\* The scheduler of the plugin (__init__.py 57, 1191-1236): _enabled, _cron,
\* _scheduler, the jobs of the scheduler, and the calls made so far.
VARIABLES sch_enabled, sch_cron, sch_scheduler, sch_jobs, sch_calls

schVars == <<sch_enabled, sch_cron, sch_scheduler, sch_jobs, sch_calls>>

extVars == <<genVars, idVars, sesVars, saveVars, resVars, schVars>>

vars == <<fetchVars, selVars, pluginVars, runVars, histVars, extVars>>

\* The value of a variable that holds nothing yet.
NoResult == "<none>"

\* Response bodies of a 2xx answer (response.text); the body may be empty.
Bodies == {"", "<html>page</html>"}

\* What one session.get + raise_for_status can do:
\*   ok       2xx, raise_for_status passes, response.text is the body
\*   http4xx  raise_for_status raises HTTPError for a 400-499 status
\*   http5xx  raise_for_status raises HTTPError for a 500-599 status
\*   conn     requests.exceptions.ConnectionError
\*   timeout  requests.exceptions.Timeout
\*   reqexc   another requests.exceptions.RequestException
\*   other    an exception that is no RequestException
FailureKinds == {"http4xx", "http5xx", "conn", "timeout", "reqexc", "other"}

Outcomes == [kind : {"ok"}, body : Bodies] \cup [kind : FailureKinds, body : {""}]

\* The retry values the callers pass: every call site uses the default, 3;
\* the model covers 1..MaxRetry.
RetryValues == 1..MaxRetry

\* The inner except clauses (124-135) catch the requests exceptions only;
\* HTTPError is what raise_for_status raises for a 4xx as for a 5xx.
InnerCaught(kind) == kind \in {"conn", "timeout", "http4xx", "http5xx", "reqexc"}

\* The outer `except Exception` (146-149) catches what is left.
OuterCaughtMut(kind) == kind \in {"conn", "timeout", "http4xx", "http5xx", "reqexc"}

OuterCaught(kind) == kind \in FailureKinds

\* `if i < retry - 1: time.sleep(2)` (137-140).
ShouldSleepMut(i, retry) == i < retry

ShouldSleep(i, retry) == i < retry - 1

\* Entry of get_page_source: the session is initialised, the loop starts at i = 0.
GetPageSourceCall(retry) ==
    /\ UNCHANGED <<selVars, pluginVars, runVars, histVars, extVars>>
    /\ f_pc = "idle"
    /\ f_pc' = "loop"
    /\ f_retry' = retry
    /\ f_i' = 0
    /\ f_attempts' = 0
    /\ f_sleeps' = 0
    /\ f_result' = NoResult
    /\ f_raised' = FALSE
    /\ f_hist' = <<>>

\* One iteration of `for i in range(retry)`: the GET and its except clauses.
GetPageSourceAttempt(o) ==
    /\ UNCHANGED <<selVars, pluginVars, runVars, histVars, extVars>>
    /\ f_pc = "loop"
    /\ f_i < f_retry
    /\ f_attempts' = f_attempts + 1
    /\ f_hist' = Append(f_hist, o)
    /\ IF o.kind = "ok"
         THEN \* return response.text (123)
              /\ f_pc' = "returned"
              /\ f_result' = o.body
              /\ UNCHANGED <<f_i, f_raised>>
         ELSE IF InnerCaught(o.kind)
         THEN \* logged (124-135), then 137-142
              IF ShouldSleep(f_i, f_retry)
                THEN /\ f_pc' = "sleep"
                     /\ UNCHANGED <<f_i, f_result, f_raised>>
                ELSE /\ f_pc' = "loop"
                     /\ f_i' = f_i + 1
                     /\ UNCHANGED <<f_result, f_raised>>
         ELSE IF OuterCaught(o.kind)
         THEN \* `except Exception: return ""` (146-149)
              /\ f_pc' = "returned"
              /\ f_result' = ""
              /\ UNCHANGED <<f_i, f_raised>>
         ELSE \* the exception leaves get_page_source
              /\ f_pc' = "returned"
              /\ f_raised' = TRUE
              /\ UNCHANGED <<f_i, f_result>>
    /\ UNCHANGED <<f_retry, f_sleeps>>

\* range(retry) is exhausted: `return ""` (144-145).
GetPageSourceExhausted ==
    /\ UNCHANGED <<selVars, pluginVars, runVars, histVars, extVars>>
    /\ f_pc = "loop"
    /\ f_i >= f_retry
    /\ f_pc' = "returned"
    /\ f_result' = ""
    /\ UNCHANGED <<f_retry, f_i, f_attempts, f_sleeps, f_raised, f_hist>>

\* time.sleep(2) between two attempts, then the next iteration.
GetPageSourceSleep ==
    /\ UNCHANGED <<selVars, pluginVars, runVars, histVars, extVars>>
    /\ f_pc = "sleep"
    /\ f_sleeps' = f_sleeps + 1
    /\ f_i' = f_i + 1
    /\ f_pc' = "loop"
    /\ UNCHANGED <<f_retry, f_attempts, f_result, f_raised, f_hist>>

\* The caller has the result; the handler instance is free for the next call.
GetPageSourceDone ==
    /\ UNCHANGED <<selVars, pluginVars, runVars, histVars, extVars>>
    /\ f_pc = "returned"
    /\ f_pc' = "idle"
    /\ UNCHANGED <<f_retry, f_i, f_attempts, f_sleeps, f_result, f_raised, f_hist>>

FetchVarsInit ==
    /\ f_pc = "idle"
    /\ f_retry = 0
    /\ f_i = 0
    /\ f_attempts = 0
    /\ f_sleeps = 0
    /\ f_result = NoResult
    /\ f_raised = FALSE
    /\ f_hist = <<>>

\* ------------------------------------------------------------------------
\* Site urls and handler classes (sites/mteam.py, sites/nexusphp.py)
\* ------------------------------------------------------------------------
\* The absent handler / value: Python's None.
None == "None"

\* A url is None or a string; the string is kept as its sequence of parts, so
\* that `"m-team" in url` is a search and `not url` an emptiness test.
UrlNone == [isNone |-> TRUE, text |-> <<>>]

UrlEmpty == [isNone |-> FALSE, text |-> <<>>]

UrlOther == [isNone |-> FALSE, text |-> <<"https://", "pt", ".", "example", ".", "org">>]

UrlMTeam == [isNone |-> FALSE, text |-> <<"https://", "kp", ".", "m-team", ".", "cc">>]

Urls == {UrlNone, UrlEmpty, UrlOther, UrlMTeam}

\* The urls the registry may hold for a site.
SiteUrls == {UrlNone, UrlOther, UrlMTeam}

\* Python truthiness of a url: neither None nor "".
Truthy(url) == ~url.isNone /\ url.text # <<>>

\* `part in url`
Contains(url, part) == \E k \in 1..Len(url.text) : url.text[k] = part

\* The handler classes of sites/.
MTeam == "MTeamInviterInfoHandler"

NexusPHP == "NexusPHPInviterInfoHandler"

HandlerClasses == {MTeam, NexusPHP}

\* A class that is no class of sites/: what a further file dropped into sites/
\* would add to the list (module_loader.py 35-54).
Plugged == "PluggedHandler"

\* MTeamInviterInfoHandler.match, a classmethod (mteam.py 16-25).
MTeamMatch(url) == IF Truthy(url) /\ Contains(url, "m-team") THEN "true" ELSE "false"

\* NexusPHPInviterInfoHandler.match is an instance method (nexusphp.py 19-26):
\* called on the class with one argument (module_loader.py 97), the url is bound
\* to self and the call raises TypeError for the missing parameter.
NexusPHPMatch(url) == "raise"

\* handler_class.match(site_url) for the classes of sites/.
ClassMatchMut(h, url) ==
    IF h = MTeam THEN MTeamMatch(url)
    ELSE IF Truthy(url) THEN "true" ELSE "false"

ClassMatch(h, url) == IF h = MTeam THEN MTeamMatch(url) ELSE NexusPHPMatch(url)

MatchOutcomes == {"true", "false", "raise"}

\* The outcome of match for every class of a list; `plugged` is what the match
\* of the class from outside sites/ does on this url.
MatchTable(url, plugged) ==
    [h \in HandlerClasses \cup {Plugged} |->
        IF h \in HandlerClasses THEN ClassMatch(h, url) ELSE plugged]

\* ------------------------------------------------------------------------
\* Registry: ModuleLoader.get_handler_for_site (module_loader.py 77-107)
\* ------------------------------------------------------------------------
\* The mutant stops the search at a match call that raises.
RECURSIVE FirstMatchMut(_, _, _)
FirstMatchMut(handlers, table, k) ==
    IF k > Len(handlers) THEN None
    ELSE IF table[handlers[k]] = "true" THEN handlers[k]
    ELSE IF table[handlers[k]] = "raise" THEN None
    ELSE FirstMatchMut(handlers, table, k + 1)

\* `for handler_class in handlers` from position k (95-104): a true match
\* returns an instance of the class; false and a raised exception go on.
RECURSIVE FirstMatch(_, _, _)
FirstMatch(handlers, table, k) ==
    IF k > Len(handlers) THEN None
    ELSE IF table[handlers[k]] = "true" THEN handlers[k]
    ELSE FirstMatch(handlers, table, k + 1)

GetHandlerForSite(url, handlers, table) ==
    IF ~Truthy(url) THEN None
    ELSE IF handlers = <<>> THEN None
    ELSE FirstMatch(handlers, table, 1)

\* All lists of at most n classes of S.
SeqsUpTo(S, n) == UNION {[1..m -> S] : m \in 0..n}

SelVarsInit ==
    /\ sel_url = UrlEmpty
    /\ sel_handlers = <<>>
    /\ sel_plugged = "false"
    /\ sel_result = NoResult

\* A call of get_handler_for_site on some url and some list of classes.
SelectCall(url, handlers, plugged) ==
    /\ UNCHANGED <<fetchVars, pluginVars, runVars, histVars, extVars>>
    /\ sel_result = NoResult
    /\ sel_url' = url
    /\ sel_handlers' = handlers
    /\ sel_plugged' = plugged
    /\ sel_result' = GetHandlerForSite(url, handlers, MatchTable(url, plugged))

\* The caller has the result.
SelectDone ==
    /\ UNCHANGED <<fetchVars, pluginVars, runVars, histVars, extVars>>
    /\ sel_result # NoResult
    /\ sel_result' = NoResult
    /\ UNCHANGED <<sel_url, sel_handlers, sel_plugged>>

\* ------------------------------------------------------------------------
\* Data of the orchestrator (__init__.py)
\* ------------------------------------------------------------------------
\* Site i of the registry has id i and name i; names are unique.
Sites == 1..NumSites

\* The two ways a run is started: the run-once thread (90-92) and the cron job
\* (1211-1216; the scheduler runs one instance of a job at a time).
Runs == {"once", "cron"}

\* A key that a dict does not hold.
NoRec == [absent |-> TRUE]

\* The empty dict {}.
EmptyData == [s \in Sites |-> NoRec]

\* len(site_data)
Count(data) == Cardinality({s \in Sites : data[s] # NoRec})

\* dict.get(key, default)
Get(d, key, default) == IF key \in DOMAIN d THEN d[key] ELSE default

\* A dict a handler's get_inviter_info returns (nexusphp.py 646, mteam.py 157).
InfoDicts ==
    { [inviter_name |-> "alice", inviter_id |-> "42", inviter_email |-> ""] }

\* get_inviter_info returned None.
ResNone == [none |-> TRUE]

\* get_inviter_info raised.
ResRaise == [raise |-> TRUE]

\* get_inviter_info returned a value that is neither a dict nor None, so that
\* inviter_info.get raises (982).
ResMalformed == [malformed |-> TRUE]

\* What a call of get_inviter_info does: a dict, None, another value, or an
\* exception.
HandlerResults == InfoDicts \cup {ResNone, ResMalformed, ResRaise}

\* site_data_entry (981-986) at time t.
Entry(info, t) ==
    [inviter_name  |-> Get(info, "inviter_name", "-"),
     inviter_id    |-> Get(info, "inviter_id", "-"),
     inviter_email |-> Get(info, "inviter_email", "-"),
     get_time      |-> t]

\* A page is the set of the markers its text holds; the empty string holds none.
PageEmpty == {}

PageLogin == {"login", "password"}

PageProfile == {"rowhead", "Inviter", "Uploaded"}

Pages == {PageEmpty, PageLogin, PageProfile}

\* Some of nexusphp_features (nexusphp.py 38-78).
NexusphpFeatures == {"userdetails", "rowhead", "torrents", "Inviter", "Uploaded", "nexusphp"}

\* is_nexusphp_site (nexusphp.py 28-86)
IsNexusphpSite(page) ==
    IF page = PageEmpty THEN FALSE
    ELSE \E f \in NexusphpFeatures : f \in page

\* test_urls (905-911)
NumProbeUrls == 5

\* The mutant takes any non-empty page for a NexusPHP page.
RECURSIVE ProbeFromMut(_, _)
ProbeFromMut(pages, k) ==
    IF k > Len(pages) THEN FALSE
    ELSE IF pages[k] # PageEmpty THEN TRUE
    ELSE ProbeFromMut(pages, k + 1)

\* `for test_url in test_urls` from position k (914-919); pages[k] is what
\* get_page_source returned for test_urls[k].
RECURSIVE ProbeFrom(_, _)
ProbeFrom(pages, k) ==
    IF k > Len(pages) THEN FALSE
    ELSE IF pages[k] # PageEmpty /\ IsNexusphpSite(pages[k]) THEN TRUE
    ELSE ProbeFrom(pages, k + 1)

\* The orders in which load_site_handlers can list the classes of sites/
\* (os.listdir gives no order, module_loader.py 35).
HandlerPerms == {<<MTeam, NexusPHP>>, <<NexusPHP, MTeam>>}

\* __load_site_data (1071-1095): the file's map, or {} when reading fails.
LoadSiteDataMut(file, ok) == EmptyData

LoadSiteData(file, ok) == IF ok THEN file ELSE EmptyData

\* __save_site_data (1051-1069): the whole map replaces the file; a failure is
\* logged and swallowed.  The mutant writes nothing.
SaveSiteDataMut(file, data, ok) == file

SaveSiteData(file, data, ok) == IF ok THEN data ELSE file

\* `if not force_refresh and site.name in site_data` (828)
SkipExistingMut(force, s, data) == force /\ data[s] # NoRec

SkipExisting(force, s, data) == ~force /\ data[s] # NoRec

\* `if self._selected_sites and str(site.id) not in self._selected_sites` (820)
NotSelectedMut(s, selected) == s \notin selected

NotSelected(s, selected) == selected # {} /\ s \notin selected

\* An exception of a step of site i is caught (971-973, 934-939, 998-1002) and
\* the loop goes on with the next site.
AfterSiteErrorMut(i) == NumSites + 1

AfterSiteError(i) == i + 1

\* The outcomes of a file operation.
IoOutcomes == IF diskFaults THEN BOOLEAN ELSE {TRUE}

Active(r) == pc[r] # "idle"

NoRunActive == \A r \in Runs : ~Active(r)

\* The configurations the host passes to init_plugin.
Configs ==
    [onlyonce : BOOLEAN, selected : SUBSET Sites, force : BOOLEAN,
     notify : BOOLEAN, cron : BOOLEAN, aborttask : BOOLEAN]

\* ------------------------------------------------------------------------
\* init_plugin, abort_run and the scheduler (__init__.py 62-164, 1191-1223)
\* ------------------------------------------------------------------------
\* abort_run (158-164)
AbortRun ==
    /\ abortFlag' = TRUE
    /\ abortAsked' = [r \in Runs |-> abortAsked[r] \/ Active(r)]
    /\ UNCHANGED <<store, selectedSites, forceRefresh, notify, onlyonce, cronCfg,
                   jobScheduled, siteHandlers, now, initPc, diskFaults>>
    /\ UNCHANGED runVars
    /\ UNCHANGED <<startStore, visited, lookedUp, fetched, saved,
                   failed, noMatch, aborted>>
    /\ UNCHANGED <<fetchVars, selVars, extVars>>

\* init_plugin from line 86 on: the run-once thread is started with
\* force_refresh = self._force_refresh when onlyonce is set (87-104), the
\* handlers are loaded (108) and the periodic job is set up (111).
InitPluginRest(oo) ==
    /\ IF oo
         THEN /\ pc["once"] = "idle"
              /\ pc' = [pc EXCEPT !["once"] = "start"]
              /\ forceArg' = [forceArg EXCEPT !["once"] = forceRefresh']
         ELSE UNCHANGED <<pc, forceArg>>
    /\ onlyonce' = FALSE
    /\ siteHandlers' \in HandlerPerms
    /\ jobScheduled' = cronCfg'
    /\ initPc' = "idle"

\* init_plugin(config) up to line 80: the configuration is taken over; with
\* aborttask set, abort_run() is called and the rest follows in InitPluginReset.
InitPlugin(cfg) ==
    /\ initPc = "idle"
    /\ cfg.onlyonce => now < MaxRuns
    /\ selectedSites' = cfg.selected
    /\ forceRefresh' = cfg.force
    /\ notify' = cfg.notify
    /\ cronCfg' = cfg.cron
    /\ IF cfg.aborttask
         THEN /\ abortFlag' = TRUE
              /\ abortAsked' = [r \in Runs |-> abortAsked[r] \/ Active(r)]
              /\ onlyonce' = cfg.onlyonce
              /\ initPc' = "reset"
              /\ UNCHANGED <<pc, forceArg, siteHandlers, jobScheduled>>
         ELSE /\ InitPluginRest(cfg.onlyonce)
              /\ UNCHANGED <<abortFlag, abortAsked>>
    /\ UNCHANGED <<store, now, diskFaults>>
    /\ UNCHANGED <<idx, siteData, initialCount, curUrl, matched, notes>>
    /\ UNCHANGED <<startStore, visited, lookedUp, fetched, saved,
                   failed, noMatch, aborted>>
    /\ UNCHANGED <<fetchVars, selVars, extVars>>

\* init_plugin from line 82: `self._abort_flag = False`, then the rest.
InitPluginReset ==
    /\ initPc = "reset"
    /\ abortFlag' = FALSE
    /\ UNCHANGED <<selectedSites, forceRefresh, notify, cronCfg>>
    /\ InitPluginRest(onlyonce)
    /\ UNCHANGED <<store, now, diskFaults>>
    /\ UNCHANGED <<idx, siteData, initialCount, curUrl, matched, notes>>
    /\ UNCHANGED histVars
    /\ UNCHANGED <<fetchVars, selVars, extVars>>

\* The scheduler fires the periodic job: __get_all_site_inviter_info() is called
\* without arguments (1211-1216), so force_refresh has its default, False.
CronFire ==
    /\ jobScheduled
    /\ pc["cron"] = "idle"
    /\ now < MaxRuns
    /\ pc' = [pc EXCEPT !["cron"] = "start"]
    /\ forceArg' = [forceArg EXCEPT !["cron"] = FALSE]
    /\ UNCHANGED pluginVars
    /\ UNCHANGED <<idx, siteData, initialCount, curUrl, matched, notes>>
    /\ UNCHANGED histVars
    /\ UNCHANGED <<fetchVars, selVars, extVars>>

\* ------------------------------------------------------------------------
\* The run: __get_all_site_inviter_info (__init__.py 682-1049)
\* ------------------------------------------------------------------------
\* Lines 687-763: the stored map is loaded and counted, the sites are read, the
\* handlers are loaded again when the list is empty.  sitesOk is false when
\* get_indexers raises or gives no site: the run returns the loaded map at once
\* (710-714, 729-732).
RunBegin(r) ==
    /\ pc[r] = "start"
    /\ \E loadOk \in IoOutcomes, sitesOk \in BOOLEAN :
         LET data == LoadSiteData(store, loadOk) IN
           /\ siteData' = [siteData EXCEPT ![r] = data]
           /\ initialCount' = [initialCount EXCEPT ![r] = Count(data)]
           /\ IF sitesOk
                THEN /\ pc' = [pc EXCEPT ![r] = "loop"]
                     /\ IF siteHandlers = <<>>
                          THEN siteHandlers' \in HandlerPerms
                          ELSE UNCHANGED siteHandlers
                ELSE /\ pc' = [pc EXCEPT ![r] = "ret"]
                     /\ UNCHANGED siteHandlers
    /\ startStore' = [startStore EXCEPT ![r] = store]
    /\ now' = now + 1
    /\ UNCHANGED <<store, abortFlag, selectedSites, forceRefresh, notify, onlyonce,
                   cronCfg, jobScheduled, initPc, diskFaults>>
    /\ UNCHANGED <<idx, forceArg, curUrl, matched, notes>>
    /\ UNCHANGED <<visited, lookedUp, fetched, saved, failed, noMatch, aborted, abortAsked>>
    /\ UNCHANGED <<fetchVars, selVars, extVars>>

\* The abort flag was read as set (769-811, 876-893, 947-964): the abort
\* notification is posted when notifications are on, the flag is reset, and
\* `break` leaves the loop.
ObserveAbort(r) ==
    /\ abortFlag' = FALSE
    /\ notes' = [notes EXCEPT ![r] = IF notify THEN Append(@, "abort") ELSE @]
    /\ pc' = [pc EXCEPT ![r] = "post"]
    /\ aborted' = [aborted EXCEPT ![r] = TRUE]
    /\ curUrl' = [curUrl EXCEPT ![r] = UrlEmpty]
    /\ matched' = [matched EXCEPT ![r] = None]
    /\ UNCHANGED <<store, selectedSites, forceRefresh, notify, onlyonce, cronCfg,
                   jobScheduled, siteHandlers, now, initPc, diskFaults>>
    /\ UNCHANGED <<idx, siteData, forceArg, initialCount>>
    /\ UNCHANGED <<startStore, visited, lookedUp, fetched, saved, failed, noMatch,
                   abortAsked>>

\* Top of `for site in sites` (765-872): the abort check, the selection filter,
\* the skip of a site that has a record, and the handler lookup on site.url,
\* whatever url the registry holds for the site.
RunLoopTop(r) ==
    /\ pc[r] = "loop"
    /\ IF idx[r] > NumSites
         THEN \* the list is exhausted
              /\ pc' = [pc EXCEPT ![r] = "post"]
              /\ UNCHANGED <<pluginVars, histVars>>
              /\ UNCHANGED <<idx, siteData, forceArg, initialCount, curUrl, matched,
                             notes>>
         ELSE IF abortFlag
         THEN ObserveAbort(r)
         ELSE LET s == idx[r] IN
              /\ visited' = [visited EXCEPT ![r] = @ \cup {s}]
              /\ IF NotSelected(s, selectedSites) \/ SkipExisting(forceArg[r], s, siteData[r])
                   THEN \* continue (825, 833)
                        /\ idx' = [idx EXCEPT ![r] = @ + 1]
                        /\ UNCHANGED <<pc, curUrl, matched, lookedUp>>
                   ELSE \E url \in SiteUrls :
                        LET h == GetHandlerForSite(url, siteHandlers, MatchTable(url, "false"))
                        IN /\ curUrl' = [curUrl EXCEPT ![r] = url]
                           /\ lookedUp' = [lookedUp EXCEPT ![r] = @ \cup {s}]
                           /\ matched' = [matched EXCEPT ![r] = h]
                           /\ pc' = [pc EXCEPT ![r] = IF h = None THEN "probe" ELSE "extract"]
                           /\ UNCHANGED idx
              /\ UNCHANGED pluginVars
              /\ UNCHANGED <<siteData, forceArg, initialCount, notes>>
              /\ UNCHANGED <<startStore, fetched, saved, failed, noMatch, aborted,
                             abortAsked>>
    /\ UNCHANGED <<fetchVars, selVars, extVars>>

\* No handler matched (872-939): the abort check, then the probe pages are
\* fetched and tested; a site that is no NexusPHP site gets no handler, so that
\* inviter_info stays None and nothing is saved (942, 974-975, 995-996).
RunProbe(r) ==
    /\ pc[r] = "probe"
    /\ IF abortFlag
         THEN ObserveAbort(r)
         ELSE LET s == idx[r] IN
              /\ IF curUrl[r].isNone
                   THEN \* site.url.rstrip raises (904), caught at 934
                        /\ failed' = [failed EXCEPT ![r] = @ \cup {s}]
                        /\ noMatch' = [noMatch EXCEPT ![r] = @ \cup {s}]
                        /\ idx' = [idx EXCEPT ![r] = AfterSiteError(@)]
                        /\ pc' = [pc EXCEPT ![r] = "loop"]
                        /\ curUrl' = [curUrl EXCEPT ![r] = UrlEmpty]
                        /\ UNCHANGED <<matched, fetched>>
                   ELSE \E pages \in [1..NumProbeUrls -> Pages] :
                        /\ fetched' = [fetched EXCEPT ![r] = @ \cup {s}]
                        /\ IF ProbeFrom(pages, 1)
                             THEN /\ matched' = [matched EXCEPT ![r] = NexusPHP]
                                  /\ pc' = [pc EXCEPT ![r] = "extract"]
                                  /\ UNCHANGED <<idx, curUrl>>
                             ELSE /\ idx' = [idx EXCEPT ![r] = @ + 1]
                                  /\ pc' = [pc EXCEPT ![r] = "loop"]
                                  /\ curUrl' = [curUrl EXCEPT ![r] = UrlEmpty]
                                  /\ UNCHANGED matched
                        /\ noMatch' = [noMatch EXCEPT ![r] =
                              IF \E k \in 1..NumProbeUrls :
                                     pages[k] \cap NexusphpFeatures # {}
                                THEN @ ELSE @ \cup {s}]
                        /\ UNCHANGED failed
              /\ UNCHANGED pluginVars
              /\ UNCHANGED <<siteData, forceArg, initialCount, notes>>
              /\ UNCHANGED <<startStore, visited, lookedUp, saved, aborted, abortAsked>>
    /\ UNCHANGED <<fetchVars, selVars, extVars>>

\* A handler is at hand (943-996): the abort check, get_inviter_info, and for a
\* result that is not None the entry is put into site_data and the whole map is
\* written to the file.
RunExtract(r) ==
    /\ pc[r] = "extract"
    /\ IF abortFlag
         THEN ObserveAbort(r)
         ELSE LET s == idx[r] IN
              \E res \in HandlerResults, saveOk \in IoOutcomes :
              /\ fetched' = [fetched EXCEPT ![r] = @ \cup {s}]
              /\ IF res \in {ResRaise, ResMalformed}
                   THEN \* caught at 971, or in the saving step at 993
                        /\ failed' = [failed EXCEPT ![r] = @ \cup {s}]
                        /\ idx' = [idx EXCEPT ![r] = AfterSiteError(@)]
                        /\ UNCHANGED <<siteData, store, saved>>
                   ELSE IF res = ResNone
                   THEN \* `inviter_info is not None` fails (978)
                        /\ idx' = [idx EXCEPT ![r] = @ + 1]
                        /\ UNCHANGED <<siteData, store, saved, failed>>
                   ELSE LET data == [siteData[r] EXCEPT ![s] = Entry(res, now)] IN
                        /\ siteData' = [siteData EXCEPT ![r] = data]
                        /\ store' = SaveSiteData(store, data, saveOk)
                        /\ saved' = [saved EXCEPT ![r] = IF saveOk THEN @ \cup {s} ELSE @]
                        /\ idx' = [idx EXCEPT ![r] = @ + 1]
                        /\ UNCHANGED failed
              /\ pc' = [pc EXCEPT ![r] = "loop"]
              /\ curUrl' = [curUrl EXCEPT ![r] = UrlEmpty]
              /\ matched' = [matched EXCEPT ![r] = None]
              /\ UNCHANGED <<abortFlag, selectedSites, forceRefresh, notify, onlyonce,
                             cronCfg, jobScheduled, siteHandlers, now, initPc, diskFaults>>
              /\ UNCHANGED <<forceArg, initialCount, notes>>
              /\ UNCHANGED <<startStore, visited, lookedUp, noMatch, aborted,
                             abortAsked>>
    /\ UNCHANGED <<fetchVars, selVars, extVars>>

\* After the loop (1004-1047): the summary notification is posted when
\* notifications are on and the map has grown.
RunFinish(r) ==
    /\ pc[r] = "post"
    /\ LET newCount == Count(siteData[r]) - initialCount[r] IN
         notes' = [notes EXCEPT ![r] =
                      IF notify /\ newCount > 0 THEN Append(@, "done") ELSE @]
    /\ pc' = [pc EXCEPT ![r] = "ret"]
    /\ UNCHANGED pluginVars
    /\ UNCHANGED <<idx, siteData, forceArg, initialCount, curUrl, matched>>
    /\ UNCHANGED histVars
    /\ UNCHANGED <<fetchVars, selVars, extVars>>

\* `return site_data` (714, 732, 1049): the map in siteData[r] goes to the
\* caller, which drops it; the locals of the call and its history are gone.
RunReturn(r) ==
    /\ pc[r] = "ret"
    /\ pc' = [pc EXCEPT ![r] = "idle"]
    /\ idx' = [idx EXCEPT ![r] = 1]
    /\ siteData' = [siteData EXCEPT ![r] = EmptyData]
    /\ forceArg' = [forceArg EXCEPT ![r] = FALSE]
    /\ initialCount' = [initialCount EXCEPT ![r] = 0]
    /\ notes' = [notes EXCEPT ![r] = <<>>]
    /\ startStore' = [startStore EXCEPT ![r] = EmptyData]
    /\ visited' = [visited EXCEPT ![r] = {}]
    /\ lookedUp' = [lookedUp EXCEPT ![r] = {}]
    /\ fetched' = [fetched EXCEPT ![r] = {}]
    /\ saved' = [saved EXCEPT ![r] = {}]
    /\ failed' = [failed EXCEPT ![r] = {}]
    /\ noMatch' = [noMatch EXCEPT ![r] = {}]
    /\ aborted' = [aborted EXCEPT ![r] = FALSE]
    /\ abortAsked' = [abortAsked EXCEPT ![r] = FALSE]
    /\ UNCHANGED pluginVars
    /\ UNCHANGED <<curUrl, matched>>
    /\ UNCHANGED <<fetchVars, selVars, extVars>>

\* ------------------------------------------------------------------------
\* Strings of the generic handler (sites/nexusphp.py)
\* ------------------------------------------------------------------------
\* A string is the sequence of its parts.  A part is a word, a label, a run of
\* digits or one character; "ANON" stands for the name of an anonymous inviter
\* (598) and "NONE" for the name of the not-found record (387).
Anon == <<"ANON">>

NotFound == <<"NONE">>

\* The parts of names: a user name, the anonymous name, a dash, the label
\* "Inviter" (410), a colon, a blank.
NameParts == {"alice", "ANON", "-", "Inviter", ":", " "}

\* str.strip() on the left.
RECURSIVE LStrip(_)
LStrip(str) ==
    IF str # <<>> /\ Head(str) = " " THEN LStrip(Tail(str)) ELSE str

\* Removal of the longest tail made of parts of `set`.
RECURSIVE RStripSet(_, _)
RStripSet(str, set) ==
    IF str # <<>> /\ str[Len(str)] \in set
      THEN RStripSet(SubSeq(str, 1, Len(str) - 1), set)
      ELSE str

\* str.strip()
Strip(str) == RStripSet(LStrip(str), {" "})

\* The first position at which `pat` occurs in `str`, 0 when it does not.
IndexOf(str, pat) ==
    LET at == {k \in 1..(Len(str) - Len(pat) + 1) : SubSeq(str, k, k + Len(pat) - 1) = pat}
    IN  IF at = {} THEN 0 ELSE CHOOSE k \in at : \A j \in at : k <= j

\* `pat in str`
Within(str, pat) == IndexOf(str, pat) > 0

\* str.split(pat, 1)[-1] for a pat that occurs in str.
AfterFirst(str, pat) == SubSeq(str, IndexOf(str, pat) + Len(pat), Len(str))

\* re.sub of every part of `set` by "".
RemoveParts(str, set) == SelectSeq(str, LAMBDA part : part \notin set)

\* re.sub(r'\s+', ' ', str): runs of blanks become one blank.
RECURSIVE CollapseBlanks(_)
CollapseBlanks(str) ==
    IF Len(str) < 2 THEN str
    ELSE IF str[1] = " " /\ str[2] = " " THEN CollapseBlanks(Tail(str))
    ELSE <<str[1]>> \o CollapseBlanks(Tail(str))

\* The forms of the label tried in this order (559): with a colon, bare.
LabelForms == << <<"Inviter", ":">>, <<"Inviter">> >>

\* Lines 558-563: the first form of the label found in the name is cut off with
\* what precedes it.
RECURSIVE StripLabelFrom(_, _)
StripLabelFrom(name, k) ==
    IF k > Len(LabelForms) THEN name
    ELSE IF Within(name, LabelForms[k]) THEN Strip(AfterFirst(name, LabelForms[k]))
    ELSE StripLabelFrom(name, k + 1)

\* The parts the pattern of line 568 removes from the end of the name.
TrailingPunctuation == {" ", ":"}

\* The parts outside [\w一-龥\-_.@] (580).
SpecialParts == {" ", ":"}

\* The cleaning steps of lines 558-580, in their order: label, trailing
\* punctuation, HTML entities (no part is one), blanks, special characters.
CleanName(name) ==
    LET a == StripLabelFrom(name, 1)
        b == RStripSet(Strip(a), TrailingPunctuation)
        c == RemoveParts(b, {})
        d == Strip(CollapseBlanks(c))
    IN  RemoveParts(d, SpecialParts)

\* The names line 589 takes for no name.
Placeholders == {<<>>, NotFound, Anon, <<"-">>}

\* Lines 551-590: a name that is not empty is cleaned; the placeholder test is
\* made in the branch of a name the cleaning left as it was (585-590).
NormalizeName(name) ==
    IF name = <<>> THEN <<>>
    ELSE IF CleanName(name) # name THEN CleanName(name)
    ELSE IF name \in Placeholders THEN <<>>
    ELSE name

\* ------------------------------------------------------------------------
\* Extraction of the inviter id (nexusphp.py 603-639, mteam.py 127-140)
\* ------------------------------------------------------------------------
\* The parts of an href: a path, the text "id=", the separator, one digit, one
\* letter, the path of an M-Team profile.
HrefParts == {"p?", "id=", "&", "5", "7", "x", "detail/"}

Digits == {"5", "7"}

\* str.isdigit(): not empty and made of digits.
IsDigit(str) == str # <<>> /\ \A k \in 1..Len(str) : str[k] \in Digits

\* The last position at which `pat` occurs in `str`, 0 when it does not.
LastIndexOf(str, pat) ==
    LET at == {k \in 1..(Len(str) - Len(pat) + 1) : SubSeq(str, k, k + Len(pat) - 1) = pat}
    IN  IF at = {} THEN 0 ELSE CHOOSE k \in at : \A j \in at : k >= j

\* str.split(pat)[-1]: what follows the last occurrence of pat.
AfterLast(str, pat) ==
    IF Within(str, pat) THEN SubSeq(str, LastIndexOf(str, pat) + Len(pat), Len(str))
    ELSE str

\* str.split(pat)[0]: what precedes the first occurrence of pat.
BeforeFirst(str, pat) ==
    IF Within(str, pat) THEN SubSeq(str, 1, IndexOf(str, pat) - 1) ELSE str

\* The longest run of digits at the head of str.
RECURSIVE DigitRun(_)
DigitRun(str) ==
    IF str # <<>> /\ Head(str) \in Digits THEN <<Head(str)>> \o DigitRun(Tail(str))
    ELSE <<>>

\* re.search(pat + "([0-9]+)", str).group(1), <<>> when there is no match: the
\* digits after the first occurrence of pat that a digit follows.
RegexDigitsAfter(str, pat) ==
    LET at == {k \in 1..(Len(str) - Len(pat) + 1) :
                  /\ SubSeq(str, k, k + Len(pat) - 1) = pat
                  /\ DigitRun(SubSeq(str, k + Len(pat), Len(str))) # <<>>}
    IN  IF at = {} THEN <<>>
        ELSE LET k == CHOOSE i \in at : \A j \in at : i <= j
             IN  DigitRun(SubSeq(str, k + Len(pat), Len(str)))

IdEq == <<"id=">>

\* Lines 609-618: the first href that contains "id=", else the first href.
FoundLink(links) ==
    LET with == {k \in 1..Len(links) : Within(Strip(links[k]), IdEq)}
    IN  IF links = <<>> THEN <<>>
        ELSE IF with = {} THEN Strip(links[1])
        ELSE Strip(links[CHOOSE k \in with : \A j \in with : k <= j])

\* Line 625: found_link.split("id=")[-1].split("&")[0].strip()
IdPart(link) == Strip(BeforeFirst(AfterLast(link, IdEq), <<"&">>))

\* Lines 620-636 for one href.
IdOfLink(link) ==
    IF link = <<>> \/ ~Within(link, IdEq) THEN <<>>
    ELSE IF IsDigit(IdPart(link)) THEN IdPart(link)
    ELSE RegexDigitsAfter(link, IdEq)

\* Lines 604-639: inviter_id as a function of link_elements.
ExtractId(links) == IdOfLink(FoundLink(links))

\* mteam.py 128-138: the id in the first href.
MTeamExtractId(links) ==
    IF links = <<>> THEN <<>> ELSE RegexDigitsAfter(Strip(links[1]), <<"detail/">>)

\* ------------------------------------------------------------------------
\* get_inviter_info of the two handlers, step by step
\* ------------------------------------------------------------------------
MaxNameLen == 2

\* The names the extraction of lines 396-548 can give: stripped strings.
RawNames == {n \in SeqsUpTo(NameParts, MaxNameLen) : Strip(n) = n}

\* The families of locate rules in the order of the list inviter_xpaths: table
\* cells (151-179), table rows (181-187), lists (189-214), any element
\* (216-326).  The list of mteam.py (69-72) holds one rule on a table cell.
RuleFamilies == <<"cell", "row", "list", "generic">>

Rules(handler) == IF handler = MTeam THEN <<"cell">> ELSE RuleFamilies

\* elements[0] of one rule: no element (the rule matched nothing), an element
\* with child elements, an element without, or a text node (the rules ending
\* in text(), 269-326).
NoElem == "none"

Shapes(family) ==
    IF family = "generic" THEN {NoElem, "tree", "leaf", "text"}
    ELSE {NoElem, "tree", "leaf"}

\* The results of the rules of a handler on a page.
HitMaps(handler) ==
    {h \in [1..Len(RuleFamilies) -> {NoElem, "tree", "leaf", "text"}] :
        \A k \in 1..Len(RuleFamilies) :
            IF k <= Len(Rules(handler)) THEN h[k] \in Shapes(Rules(handler)[k])
            ELSE h[k] = NoElem}

\* The mutant takes the last rule that matches.
FirstRuleMut(handler, hits) ==
    LET m == {k \in 1..Len(Rules(handler)) : hits[k] # NoElem}
    IN  IF m = {} THEN 0 ELSE CHOOSE k \in m : \A j \in m : k >= j

\* Lines 333-346 (mteam.py 77-84): the index of the first rule whose result is
\* not empty, 0 when every result is empty.
FirstRule(handler, hits) ==
    LET m == {k \in 1..Len(Rules(handler)) : hits[k] # NoElem}
    IN  IF m = {} THEN 0 ELSE CHOOSE k \in m : \A j \in m : k <= j

\* bool(inviter_element): None is false, an lxml element is true when it has
\* child elements, a text node is a str and true when not empty.
ElementTruthy(shape) == shape \in {"tree", "text"}

\* The requests a handler makes.
CallResolver == "_get_user_id"

CallGetRes(what) == <<"RequestUtils.get_res", what>>

CallGetPageSource(what) == <<"get_page_source", what>>

\* The returned dict.
Record(name, id, email) ==
    [inviter_name |-> name, inviter_id |-> id, inviter_email |-> email]

\* Lines 386-390, mteam.py 88-92.
NotFoundRecord == Record(NotFound, <<>>, <<>>)

\* Lines 597-601.
AnonymousRecord == Record(Anon, <<>>, <<>>)

Pending == [pending |-> TRUE]

\* No extraction was made yet.
NotExtracted == <<"pending">>

GenVarsInit ==
    /\ g_handler = NexusPHP
    /\ g_pc = "idle"
    /\ g_calls = <<>>
    /\ g_hits = [k \in 1..Len(RuleFamilies) |-> NoElem]
    /\ g_rule = 0
    /\ g_elem = NoElem
    /\ g_raw = <<>>
    /\ g_name = <<>>
    /\ g_links = <<>>
    /\ g_id = <<>>
    /\ g_result = Pending

otherThanGen ==
    <<fetchVars, selVars, pluginVars, runVars, histVars, idVars, sesVars, saveVars, resVars,
      schVars>>

\* The method returns `value`.
Return(value) ==
    /\ g_pc' = "done"
    /\ g_result' = value

\* Entry of the method up to the request of the profile page: nexusphp.py
\* 94-117 builds the url with id=0 and asks RequestUtils; mteam.py 36-52 asks
\* the resolver and then get_page_source.
GetInviterInfoCall(handler, urlGiven, uid) ==
    /\ g_pc = "idle"
    /\ g_handler' = handler
    /\ IF ~urlGiven
         THEN /\ Return(ResNone)
              /\ g_calls' = <<>>
         ELSE /\ g_pc' = "fetched"
              /\ g_result' = Pending
              /\ g_calls' =
                    IF handler = MTeam
                      THEN <<CallResolver,
                             CallGetPageSource(IF uid # None THEN "profile/detail/uid"
                                               ELSE "profile")>>
                      ELSE <<CallGetRes("userdetails.php?id=0")>>
    /\ UNCHANGED <<g_hits, g_rule, g_elem, g_raw, g_name, g_links, g_id>>
    /\ UNCHANGED otherThanGen

\* The answers of the request: none, a status other than 200, a page.
Responses == {"none", "status", "page"}

\* Lines 118-145 (mteam.py 54-66): no answer or an empty page and a document
\* that does not parse give None; a status other than 200 asks for the home
\* page and gives None (120-131).  The page fixes the result of every rule.
GetInviterInfoFetched(resp, parsed, hits) ==
    /\ g_pc = "fetched"
    /\ IF resp = "page" /\ parsed
         THEN /\ g_pc' = "locate"
              /\ g_hits' = hits
              /\ UNCHANGED <<g_calls, g_result>>
         ELSE /\ Return(ResNone)
              /\ g_calls' = IF resp = "status" /\ g_handler = NexusPHP
                              THEN Append(g_calls, CallGetRes("home"))
                              ELSE g_calls
              /\ UNCHANGED g_hits
    /\ UNCHANGED <<g_handler, g_rule, g_elem, g_raw, g_name, g_links, g_id>>
    /\ UNCHANGED otherThanGen

\* Lines 330-392 (mteam.py 75-92): the first rule with a result gives the
\* element; a text node raises where its text is logged (340); an element that
\* is not true gives the not-found record.  `links` are the hrefs of the
\* anchors inside the element.
GetInviterInfoLocate(links) ==
    /\ g_pc = "locate"
    /\ LET k == FirstRule(g_handler, g_hits)
           e == IF k = 0 THEN NoElem ELSE g_hits[k]
       IN  /\ g_rule' = k
           /\ g_elem' = e
           /\ IF e = "text" /\ g_handler = NexusPHP THEN Return(ResRaise)
              ELSE IF ~ElementTruthy(e) THEN Return(NotFoundRecord)
              ELSE /\ g_pc' = "name"
                   /\ UNCHANGED g_result
           /\ g_links' = IF e \in {"tree", "leaf"} THEN links ELSE <<>>
    /\ UNCHANGED <<g_handler, g_calls, g_hits, g_raw, g_name, g_id>>
    /\ UNCHANGED otherThanGen

\* mteam.py 106-110: trailing punctuation, entities, blanks.
MTeamCleanName(text) ==
    Strip(CollapseBlanks(RStripSet(Strip(text), TrailingPunctuation)))

\* The test of line 595.  The mutant never takes the branch.
IsAnonymousMut(name) == FALSE

IsAnonymous(name) == name = Anon

\* Lines 394-601: the name is extracted (raw), cleaned, and an anonymous
\* inviter is returned at once.  mteam.py 96-125: the text of the element is
\* cleaned; strong and span (fallback) are read when nothing is left.
GetInviterInfoName(raw, fallback) ==
    /\ g_pc = "name"
    /\ g_raw' = raw
    /\ IF g_handler = MTeam
         THEN /\ g_name' = IF MTeamCleanName(raw) # <<>> THEN MTeamCleanName(raw)
                           ELSE fallback
              /\ g_pc' = "id"
              /\ UNCHANGED g_result
         ELSE /\ g_name' = NormalizeName(raw)
              /\ IF IsAnonymous(NormalizeName(raw)) THEN Return(AnonymousRecord)
                 ELSE /\ g_pc' = "id"
                      /\ UNCHANGED g_result
    /\ UNCHANGED <<g_handler, g_calls, g_hits, g_rule, g_elem, g_links, g_id>>
    /\ UNCHANGED otherThanGen

\* Lines 603-650: the id is taken from the hrefs of the element, and the
\* profile of the inviter is asked for the email when there is an id.
\* mteam.py 127-161: the id of the first href, the not-found record when there
\* is neither name nor id, no email.
GetInviterInfoId(email) ==
    /\ g_pc = "id"
    /\ IF g_handler = MTeam
         THEN /\ g_id' = MTeamExtractId(g_links)
              /\ UNCHANGED g_calls
              /\ IF g_name = <<>> /\ MTeamExtractId(g_links) = <<>>
                   THEN Return(NotFoundRecord)
                   ELSE Return(Record(g_name, MTeamExtractId(g_links), <<>>))
         ELSE /\ g_id' = ExtractId(g_links)
              /\ IF ExtractId(g_links) # <<>>
                   THEN /\ g_calls' = Append(g_calls, CallGetRes("userdetails.php?id=inviter"))
                        /\ Return(Record(g_name, ExtractId(g_links), email))
                   ELSE /\ UNCHANGED g_calls
                        /\ Return(Record(g_name, <<>>, <<>>))
    /\ UNCHANGED <<g_handler, g_hits, g_rule, g_elem, g_raw, g_name, g_links>>
    /\ UNCHANGED otherThanGen

\* The caller has the value; the next call starts afresh.
GetInviterInfoReturn ==
    /\ g_pc = "done"
    /\ g_pc' = "idle"
    /\ g_calls' = <<>>
    /\ g_hits' = [k \in 1..Len(RuleFamilies) |-> NoElem]
    /\ g_rule' = 0
    /\ g_elem' = NoElem
    /\ g_raw' = <<>>
    /\ g_name' = <<>>
    /\ g_links' = <<>>
    /\ g_id' = <<>>
    /\ g_result' = Pending
    /\ UNCHANGED g_handler
    /\ UNCHANGED otherThanGen

\* The lists of hrefs of the element in the runs of the whole method.
MaxHandlerHrefLen == 2

HandlerLinks ==
    {<<>>} \cup {<<h>> : h \in SeqsUpTo({"id=", "5", "detail/"}, MaxHandlerHrefLen)}

Emails == {<<>>, <<"mail">>}

\* ------------------------------------------------------------------------
\* The id extraction alone
\* ------------------------------------------------------------------------
MaxHrefLen == 5

MaxPairHrefLen == 2

\* The hrefs of at most n parts; "x" before "id=" is a parameter whose name
\* ends in id.
Hrefs(n) == SeqsUpTo({"p?", "id=", "&", "5", "x"}, n)

\* link_elements: no href, one href, or two short ones.
LinkLists ==
    {<<>>} \cup {<<h>> : h \in Hrefs(MaxHrefLen)}
           \cup {<<h1, h2>> : h1 \in Hrefs(MaxPairHrefLen), h2 \in Hrefs(MaxPairHrefLen)}

\* Lines 603-639 applied to link_elements.
ExtractIdApply(links) ==
    /\ id_result = NotExtracted
    /\ id_links' = links
    /\ id_result' = ExtractId(links)
    /\ UNCHANGED <<fetchVars, selVars, pluginVars, runVars, histVars, genVars, sesVars, saveVars,
                   resVars, schVars>>

\* The id is handed on (641-650); the next element starts afresh.
ExtractIdReturn ==
    /\ id_result # NotExtracted
    /\ id_links' = <<>>
    /\ id_result' = NotExtracted
    /\ UNCHANGED <<fetchVars, selVars, pluginVars, runVars, histVars, genVars, sesVars, saveVars,
                   resVars, schVars>>

\* ------------------------------------------------------------------------
\* The session of a handler instance (sites/__init__.py 25-88)
\* ------------------------------------------------------------------------
\* site_info as far as the session reads it: cookie, ua, proxy, url.
NoSession == [session |-> FALSE]

NoInfo == [info |-> FALSE]

SiteInfos ==
    [cookie : {"c1", "c2"}, ua : {"u1", "u2"}, proxy : BOOLEAN, url : {"a", "b"}]

\* Lines 68-81: the headers and the proxies the session gets from site_info.
BuiltSession(info) ==
    [ua |-> info.ua, cookie |-> info.cookie, referer |-> info.url, proxies |-> info.proxy]

\* Line 56: `self._session and self._initialized`.
ReuseSession(session, initialized, info) == session # NoSession /\ initialized

SesVarsInit ==
    /\ ses_pc = "idle"
    /\ ses_session = NoSession
    /\ ses_initialized = FALSE
    /\ ses_info = NoInfo
    /\ ses_prev = NoInfo

otherThanSes ==
    <<fetchVars, selVars, pluginVars, runVars, histVars, genVars, idVars, saveVars, resVars,
      schVars>>

\* get_page_source is called with site_info (90-100).
SessionFetchCall(info) ==
    /\ ses_pc = "idle"
    /\ ses_pc' = "init"
    /\ ses_info' = info
    /\ UNCHANGED <<ses_session, ses_initialized, ses_prev>>
    /\ UNCHANGED otherThanSes

\* _init_session(site_info) (49-88), called at line 102.
InitSession ==
    /\ ses_pc = "init"
    /\ ses_pc' = "send"
    /\ IF ReuseSession(ses_session, ses_initialized, ses_info)
         THEN UNCHANGED <<ses_session, ses_initialized>>
         ELSE /\ ses_session' = BuiltSession(ses_info)
              /\ ses_initialized' = TRUE
    /\ UNCHANGED <<ses_info, ses_prev>>
    /\ UNCHANGED otherThanSes

\* session.get(url, ...) (111) and the end of the fetch.
SessionSend ==
    /\ ses_pc = "send"
    /\ ses_pc' = "idle"
    /\ ses_prev' = ses_info
    /\ UNCHANGED <<ses_session, ses_initialized, ses_info>>
    /\ UNCHANGED otherThanSes

\* ------------------------------------------------------------------------
\* Writing the data file (__init__.py 1051-1069)
\* ------------------------------------------------------------------------
\* json.dump writes the document piece by piece: one piece for each entry of
\* the map and one that closes it.
Chunks(data) == Count(data) + 1

\* The content of the file: the map it was opened for and the pieces of its
\* document that were written.
FileWith(data, k) == [data |-> data, chunks |-> k]

\* A file that holds the whole document of a map.
Document(data) == FileWith(data, Chunks(data))

\* No file reads as {} (1085-1087).
EmptyFile == Document(EmptyData)

\* A dict that lacks keys, as a handler of a further file of sites/ may return.
PartialDict == [inviter_name |-> "bob"]

SaveTimes == {1, 2}

\* The maps handed to __save_site_data: entries built by lines 981-986.
SaveMaps ==
    [Sites -> {NoRec} \cup {Entry(info, t) : info \in InfoDicts \cup {PartialDict},
                                              t \in SaveTimes}]

otherThanSave ==
    <<fetchVars, selVars, pluginVars, runVars, histVars, genVars, idVars, sesVars, resVars,
      schVars>>

\* __save_site_data(site_data) is called (991).
SaveCall(data) ==
    /\ sv_pc = "idle"
    /\ sv_pc' = "open"
    /\ sv_data' = data
    /\ UNCHANGED sv_file
    /\ UNCHANGED otherThanSave

\* open(data_file, "w") (1064): the file is emptied; when it cannot be opened
\* the exception is logged (1067-1069) and the file is as before.
SaveOpen(ok) ==
    /\ sv_pc = "open"
    /\ IF ok THEN /\ sv_file' = FileWith(sv_data, 0)
                  /\ sv_pc' = "dump"
             ELSE /\ UNCHANGED sv_file
                  /\ sv_pc' = "idle"
    /\ UNCHANGED sv_data
    /\ UNCHANGED otherThanSave

\* What happens to one piece of json.dump (1065): it is written, the write
\* raises (the file is closed and the exception logged), or the process ends.
DumpOutcomes == {"written", "error", "killed"}

SaveDump(outcome) ==
    /\ sv_pc = "dump"
    /\ IF outcome = "written"
         THEN /\ sv_file' = FileWith(sv_file.data, sv_file.chunks + 1)
              /\ sv_pc' = IF sv_file.chunks + 1 = Chunks(sv_file.data) THEN "idle" ELSE "dump"
         ELSE /\ UNCHANGED sv_file
              /\ sv_pc' = IF outcome = "error" THEN "idle" ELSE "dead"
    /\ UNCHANGED sv_data
    /\ UNCHANGED otherThanSave

\* The host starts again and the plugin is loaded: the file is what it was.
SaveRestart ==
    /\ sv_pc = "dead"
    /\ sv_pc' = "idle"
    /\ UNCHANGED <<sv_file, sv_data>>
    /\ UNCHANGED otherThanSave

\* ------------------------------------------------------------------------
\* The resolver of the user's own id (sites/__init__.py 151-680)
\* ------------------------------------------------------------------------
\* The methods tried on a page, in the order of the code: JSON body (270-368),
\* userdetails link (370-377), my.php or profile.php link (379-386), url of
\* the page (388-395), script variables (397-444), usercp links (446-456),
\* cookies of the session (458-478), all links (480-509), hidden form fields
\* (511-525), title (527-536), the most frequent id-like match (538-567),
\* meta tags (569-579), script tags (581-597), panel elements (599-609).
ResolverMethods ==
    <<"json", "userdetails_link", "profile_link", "page_url", "script_vars", "usercp_link",
      "cookie", "all_links", "hidden_field", "title", "vote", "meta", "script_tag", "panel">>

\* The methods that read the page.
PageMethods == {ResolverMethods[k] : k \in 1..Len(ResolverMethods)} \ {"cookie"}

MaxResolverPages == 2

MaxPageFinds == 2

\* A page that was fetched is the set of the methods that find an id in it;
\* a page that was not is "error" (611-625).
PageError == {"error"}

ResolverPages ==
    {PageError} \cup {finds \in SUBSET PageMethods : Cardinality(finds) <= MaxPageFinds}

NoMethod == "none"

\* Whether method k finds an id on the page with these cookies.
Finds(k, page, cookie) ==
    IF ResolverMethods[k] = "cookie" THEN cookie ELSE ResolverMethods[k] \in page

\* Lines 270-609: the first method, in the order of the code, that finds an
\* id on the page; 0 when none does or the request failed.
FirstMethod(page, cookie) ==
    LET m == {k \in 1..Len(ResolverMethods) : Finds(k, page, cookie)}
    IN  IF page = PageError \/ m = {} THEN 0 ELSE CHOOSE k \in m : \A j \in m : k <= j

ResVarsInit ==
    /\ rs_pc = "idle"
    /\ rs_pages = <<>>
    /\ rs_cookie = FALSE
    /\ rs_i = 0
    /\ rs_page = 0
    /\ rs_used = NoMethod

otherThanRes ==
    <<fetchVars, selVars, pluginVars, runVars, histVars, genVars, idVars, sesVars, saveVars,
      schVars>>

\* _get_user_id(site_info) is called; the site answers the candidate pages
\* with `pages`, and the session holds or does not hold an id cookie.
GetUserIdCall(pages, cookie) ==
    /\ rs_pc = "idle"
    /\ rs_pc' = "pages"
    /\ rs_pages' = pages
    /\ rs_cookie' = cookie
    /\ rs_i' = 1
    /\ rs_page' = 0
    /\ rs_used' = NoMethod
    /\ UNCHANGED otherThanRes

\* One turn of `for page in user_pages` (243-625): the page is fetched and
\* the methods are tried; the first id found ends the loop.
GetUserIdPage ==
    /\ rs_pc = "pages"
    /\ IF rs_i > Len(rs_pages)
         THEN /\ rs_pc' = "home"
              /\ UNCHANGED <<rs_i, rs_page, rs_used>>
         ELSE LET k == FirstMethod(rs_pages[rs_i], rs_cookie) IN
              IF k = 0
                THEN /\ rs_i' = rs_i + 1
                     /\ UNCHANGED <<rs_pc, rs_page, rs_used>>
                ELSE /\ rs_used' = ResolverMethods[k]
                     /\ rs_page' = rs_i
                     /\ rs_pc' = "done"
                     /\ UNCHANGED rs_i
    /\ UNCHANGED <<rs_pages, rs_cookie>>
    /\ UNCHANGED otherThanRes

\* No page gave an id: the home page is fetched and its script variables
\* and user links are read (627-671).
GetUserIdHome(found) ==
    /\ rs_pc = "home"
    /\ rs_pc' = "done"
    /\ rs_used' = IF found THEN "home" ELSE NoMethod
    /\ UNCHANGED <<rs_pages, rs_cookie, rs_i, rs_page>>
    /\ UNCHANGED otherThanRes

\* The id, or None, goes to the caller (673-682).
GetUserIdReturn ==
    /\ rs_pc = "done"
    /\ rs_pc' = "idle"
    /\ rs_pages' = <<>>
    /\ rs_cookie' = FALSE
    /\ rs_i' = 0
    /\ rs_page' = 0
    /\ rs_used' = NoMethod
    /\ UNCHANGED otherThanRes

\* ------------------------------------------------------------------------
\* The scheduler of the plugin (__init__.py 1191-1236)
\* ------------------------------------------------------------------------
\* inviterinfo_cron as the form gives it: absent or empty, a crontab
\* expression that CronTrigger.from_crontab accepts, one that it rejects.
CronValues == {"", "valid", "invalid"}

\* _scheduler: None, a BackgroundScheduler that was created and never
\* started, one that is running.
NoScheduler == "none"

MaxSchedCalls == 4

\* BackgroundScheduler.shutdown() raises SchedulerNotRunningError on a
\* scheduler that is not running.
ShutdownRaises(scheduler) == scheduler # "running"

\* __schedule_job (1191-1223): the scheduler in hand is shut down and
\* dropped; with the plugin enabled and a cron set, a new scheduler gets
\* the job and is started. Any exception ends the method where it is.
ScheduleJob(scheduler, jobs, enabled, cron) ==
    IF scheduler # NoScheduler /\ ShutdownRaises(scheduler)
      THEN [scheduler |-> scheduler, jobs |-> jobs]
    ELSE IF ~enabled \/ cron = ""
      THEN [scheduler |-> NoScheduler, jobs |-> 0]
    ELSE IF cron = "invalid"
      THEN [scheduler |-> "created", jobs |-> 0]
    ELSE [scheduler |-> "running", jobs |-> 1]

SchVarsInit ==
    /\ sch_enabled = FALSE
    /\ sch_cron = ""
    /\ sch_scheduler = NoScheduler
    /\ sch_jobs = 0
    /\ sch_calls = <<>>

otherThanSch ==
    <<fetchVars, selVars, pluginVars, runVars, histVars, genVars, idVars, sesVars, saveVars,
      resVars>>

\* init_plugin(config) with inviterinfo_enabled and inviterinfo_cron
\* (60-122): the two are stored and __schedule_job runs.
SchedInitPlugin(enabled, cron) ==
    /\ Len(sch_calls) < MaxSchedCalls
    /\ sch_enabled' = enabled
    /\ sch_cron' = cron
    /\ LET after == ScheduleJob(sch_scheduler, sch_jobs, enabled, cron) IN
         /\ sch_scheduler' = after.scheduler
         /\ sch_jobs' = after.jobs
    /\ sch_calls' = Append(sch_calls, [op |-> "init", enabled |-> enabled, cron |-> cron])
    /\ UNCHANGED otherThanSch

\* stop_service (1225-1236): a scheduler in hand is shut down and dropped;
\* an exception of shutdown() is logged and leaves it in place.
StopService ==
    /\ Len(sch_calls) < MaxSchedCalls
    /\ IF sch_scheduler # NoScheduler /\ ~ShutdownRaises(sch_scheduler)
         THEN /\ sch_scheduler' = NoScheduler
              /\ sch_jobs' = 0
         ELSE UNCHANGED <<sch_scheduler, sch_jobs>>
    /\ sch_calls' = Append(sch_calls, [op |-> "stop", enabled |-> sch_enabled, cron |-> sch_cron])
    /\ UNCHANGED <<sch_enabled, sch_cron>>
    /\ UNCHANGED otherThanSch

\* ------------------------------------------------------------------------
\* The session of the M-Team handler (sites/mteam.py 27-56, 163-251)
\* ------------------------------------------------------------------------
\* A header the session does not hold.
NoHeader == "<absent>"

\* Lines 221-232: session.headers.clear() and update(headers) with
\* Content-Type, User-Agent, Accept, Authorization and x-api-key.
ApiSession(session, info) ==
    [ua |-> info.ua, cookie |-> NoHeader, referer |-> NoHeader, proxies |-> session.proxies]

\* What the GET of /profile leads to in _get_user_id: the id in the url of
\* the response (194-199) or in the uid cookie (202-206), an exception
\* (191, caught at 249), no api key or token (211-213), the API path
\* (214-245).
ProfileOutcomes == {"id", "error", "no_api", "api"}

\* get_inviter_info(site_info) is called (27-43) and calls _get_user_id.
MTeamGetInviterInfo(info) ==
    /\ ses_pc = "idle"
    /\ ses_prev = NoInfo \/ info = ses_prev
    /\ ses_pc' = "m_uid"
    /\ ses_info' = info
    /\ UNCHANGED <<ses_session, ses_initialized, ses_prev>>
    /\ UNCHANGED otherThanSes

\* The id stands in site_url (179-184): _get_user_id returns it, and
\* get_page_source is called with the url of the profile (44-52).
MTeamUserIdFromUrl ==
    /\ ses_pc = "m_uid"
    /\ ses_pc' = "init"
    /\ UNCHANGED <<ses_session, ses_initialized, ses_info, ses_prev>>
    /\ UNCHANGED otherThanSes

\* `session = self._init_session(site_info)` (187), before the GET of
\* /profile (190-191).
MTeamInitSession ==
    /\ ses_pc = "m_uid"
    /\ ses_pc' = "m_send"
    /\ IF ReuseSession(ses_session, ses_initialized, ses_info)
         THEN UNCHANGED <<ses_session, ses_initialized>>
         ELSE /\ ses_session' = BuiltSession(ses_info)
              /\ ses_initialized' = TRUE
    /\ UNCHANGED <<ses_info, ses_prev>>
    /\ UNCHANGED otherThanSes

\* The GET of /profile and the rest of _get_user_id (190-251); on the API
\* path the headers of the session are replaced.  Whatever _get_user_id
\* returns, get_page_source is called next (44-52).
MTeamProfileGet(outcome) ==
    /\ ses_pc = "m_send"
    /\ ses_pc' = "init"
    /\ ses_session' = IF outcome = "api" THEN ApiSession(ses_session, ses_info) ELSE ses_session
    /\ UNCHANGED <<ses_initialized, ses_info, ses_prev>>
    /\ UNCHANGED otherThanSes

\* ------------------------------------------------------------------------
\* Initial states and specifications
\* ------------------------------------------------------------------------
IdVarsInit ==
    /\ id_links = <<>>
    /\ id_result = NotExtracted

SaveVarsInit ==
    /\ sv_pc = "idle"
    /\ sv_file = EmptyFile
    /\ sv_data = EmptyData

ExtVarsInit ==
    /\ GenVarsInit
    /\ IdVarsInit
    /\ SesVarsInit
    /\ SaveVarsInit
    /\ ResVarsInit
    /\ SchVarsInit

\* The plugin object after construction (class attributes, 47-60); the file
\* does not exist yet.
PluginInit ==
    /\ store = EmptyData
    /\ abortFlag = FALSE
    /\ selectedSites = {}
    /\ forceRefresh = FALSE
    /\ notify = FALSE
    /\ onlyonce = FALSE
    /\ cronCfg = FALSE
    /\ jobScheduled = FALSE
    /\ siteHandlers = <<>>
    /\ now = 0
    /\ initPc = "idle"
    /\ diskFaults = FALSE

RunInit ==
    /\ pc = [r \in Runs |-> "idle"]
    /\ idx = [r \in Runs |-> 1]
    /\ siteData = [r \in Runs |-> EmptyData]
    /\ forceArg = [r \in Runs |-> FALSE]
    /\ initialCount = [r \in Runs |-> 0]
    /\ curUrl = [r \in Runs |-> UrlEmpty]
    /\ matched = [r \in Runs |-> None]
    /\ notes = [r \in Runs |-> <<>>]

HistInit ==
    /\ startStore = [r \in Runs |-> EmptyData]
    /\ visited = [r \in Runs |-> {}]
    /\ lookedUp = [r \in Runs |-> {}]
    /\ fetched = [r \in Runs |-> {}]
    /\ saved = [r \in Runs |-> {}]
    /\ failed = [r \in Runs |-> {}]
    /\ noMatch = [r \in Runs |-> {}]
    /\ aborted = [r \in Runs |-> FALSE]
    /\ abortAsked = [r \in Runs |-> FALSE]

\* The plugin with the host starting one run at a time (spec section 5): a
\* run-once request and a cron firing come when no run is active.
SeqInitPlugin(cfg) == (cfg.onlyonce => NoRunActive) /\ InitPlugin(cfg)

SeqCronFire == NoRunActive /\ ~(initPc = "reset" /\ onlyonce) /\ CronFire

\* force_refresh is read by the start of the run-once thread only (92): it is
\* set together with onlyonce.
HostConfigs == {cfg \in Configs : cfg.force => cfg.onlyonce}

Init ==
    /\ FetchVarsInit
    /\ SelVarsInit
    /\ PluginInit
    /\ RunInit
    /\ HistInit
    /\ ExtVarsInit

Next ==
    \/ \E cfg \in HostConfigs : SeqInitPlugin(cfg)
    \/ InitPluginReset
    \/ AbortRun
    \/ SeqCronFire
    \/ \E r \in Runs : RunBegin(r)
    \/ \E r \in Runs : RunLoopTop(r)
    \/ \E r \in Runs : RunProbe(r)
    \/ \E r \in Runs : RunExtract(r)
    \/ \E r \in Runs : RunFinish(r)
    \/ \E r \in Runs : RunReturn(r)

Spec == Init /\ [][Next]_vars

\* The plugin with nothing that keeps runs apart: init_plugin starts the
\* run-once thread (87-92) and the scheduler fires the job (1211-1216) whether
\* or not a run is active, and abort_run is called at any time.  The host asks
\* for a run at once with the periodic job set, for all sites.
ConcConfigs ==
    {cfg \in Configs : /\ cfg.onlyonce /\ cfg.cron /\ ~cfg.force /\ ~cfg.notify
                       /\ ~cfg.aborttask /\ cfg.selected = {}}

ConcInit == Init

ConcNext ==
    \/ \E cfg \in ConcConfigs : InitPlugin(cfg)
    \/ AbortRun
    \/ CronFire
    \/ \E r \in Runs : RunBegin(r)
    \/ \E r \in Runs : RunLoopTop(r)
    \/ \E r \in Runs : RunProbe(r)
    \/ \E r \in Runs : RunExtract(r)
    \/ \E r \in Runs : RunFinish(r)
    \/ \E r \in Runs : RunReturn(r)

ConcSpec == ConcInit /\ [][ConcNext]_vars

\* The plugin with one run at a time and a file that can fail to be read or
\* written: the open and the json.load of __load_site_data raise (1071-1095),
\* the write of __save_site_data raises (1051-1069).  The host asks for runs
\* over all sites, at once or by the periodic job.
FaultConfigs ==
    {cfg \in HostConfigs : /\ ~cfg.aborttask /\ ~cfg.notify /\ cfg.selected = {}}

FaultInit ==
    /\ FetchVarsInit
    /\ SelVarsInit
    /\ store = EmptyData
    /\ abortFlag = FALSE
    /\ selectedSites = {}
    /\ forceRefresh = FALSE
    /\ notify = FALSE
    /\ onlyonce = FALSE
    /\ cronCfg = FALSE
    /\ jobScheduled = FALSE
    /\ siteHandlers = <<>>
    /\ now = 0
    /\ initPc = "idle"
    /\ diskFaults = TRUE
    /\ RunInit
    /\ HistInit
    /\ ExtVarsInit

FaultNext ==
    \/ \E cfg \in FaultConfigs : SeqInitPlugin(cfg)
    \/ SeqCronFire
    \/ \E r \in Runs : RunBegin(r)
    \/ \E r \in Runs : RunLoopTop(r)
    \/ \E r \in Runs : RunProbe(r)
    \/ \E r \in Runs : RunExtract(r)
    \/ \E r \in Runs : RunFinish(r)
    \/ \E r \in Runs : RunReturn(r)

FaultSpec == FaultInit /\ [][FaultNext]_vars

\* The fetcher alone: calls of get_page_source with every retry value and
\* every sequence of outcomes of the GET.
FetchInit ==
    /\ FetchVarsInit
    /\ SelVarsInit
    /\ PluginInit
    /\ RunInit
    /\ HistInit
    /\ ExtVarsInit

FetchNext ==
    \/ \E retry \in RetryValues : GetPageSourceCall(retry)
    \/ \E o \in Outcomes : GetPageSourceAttempt(o)
    \/ GetPageSourceSleep
    \/ GetPageSourceExhausted
    \/ GetPageSourceDone

FetchSpec == FetchInit /\ [][FetchNext]_vars

\* One handler alone: get_inviter_info of either handler on every page.
HandlerInit == FetchInit

HandlerNext ==
    \/ \E handler \in {NexusPHP, MTeam}, urlGiven \in BOOLEAN, uid \in {None, "7"} :
          GetInviterInfoCall(handler, urlGiven, uid)
    \/ \E resp \in Responses, parsed \in BOOLEAN, hits \in HitMaps(g_handler) :
          GetInviterInfoFetched(resp, parsed, hits)
    \/ \E links \in HandlerLinks : GetInviterInfoLocate(links)
    \/ \E raw \in RawNames, fallback \in {<<>>, <<"alice">>} : GetInviterInfoName(raw, fallback)
    \/ \E email \in Emails : GetInviterInfoId(email)
    \/ GetInviterInfoReturn

HandlerSpec == HandlerInit /\ [][HandlerNext]_vars

\* The id extraction alone, on every list of hrefs.
IdInit == FetchInit

IdNext ==
    \/ \E links \in LinkLists : ExtractIdApply(links)
    \/ ExtractIdReturn

IdSpec == IdInit /\ [][IdNext]_vars

\* The session alone: fetches of one handler instance with every site_info.
SessionInit == FetchInit

SessionNext ==
    \/ \E info \in SiteInfos : SessionFetchCall(info)
    \/ InitSession
    \/ SessionSend

SessionSpec == SessionInit /\ [][SessionNext]_vars

\* The writing of the data file alone, with every map and every failure.
SaveInit == FetchInit

SaveNext ==
    \/ \E data \in SaveMaps : SaveCall(data)
    \/ \E ok \in BOOLEAN : SaveOpen(ok)
    \/ \E outcome \in DumpOutcomes : SaveDump(outcome)
    \/ SaveRestart

SaveSpec == SaveInit /\ [][SaveNext]_vars

\* The resolver alone, on every list of candidate pages.
ResolverInit == FetchInit

ResolverNext ==
    \/ \E pages \in SeqsUpTo(ResolverPages, MaxResolverPages), cookie \in BOOLEAN :
          GetUserIdCall(pages, cookie)
    \/ GetUserIdPage
    \/ \E found \in BOOLEAN : GetUserIdHome(found)
    \/ GetUserIdReturn

ResolverSpec == ResolverInit /\ [][ResolverNext]_vars

\* One M-Team handler instance: calls of get_inviter_info with the site_info
\* of its site.
MTeamInit == FetchInit

MTeamNext ==
    \/ \E info \in SiteInfos : MTeamGetInviterInfo(info)
    \/ MTeamUserIdFromUrl
    \/ MTeamInitSession
    \/ \E outcome \in ProfileOutcomes : MTeamProfileGet(outcome)
    \/ InitSession
    \/ SessionSend

MTeamSpec == MTeamInit /\ [][MTeamNext]_vars

\* The scheduler alone: every sequence of init_plugin and stop_service.
SchedInit == FetchInit

SchedNext ==
    \/ \E enabled \in BOOLEAN, cron \in CronValues : SchedInitPlugin(enabled, cron)
    \/ StopService

SchedSpec == SchedInit /\ [][SchedNext]_vars

\* The registry alone: get_handler_for_site on every url and every list of at
\* most MaxHandlers classes.
SelectInit == FetchInit

SelectNext ==
    \/ \E url \in Urls, handlers \in SeqsUpTo(HandlerClasses \cup {Plugged}, MaxHandlers),
          plugged \in MatchOutcomes : SelectCall(url, handlers, plugged)
    \/ SelectDone

SelectSpec == SelectInit /\ [][SelectNext]_vars

\* ------------------------------------------------------------------------
\* Properties of the fetcher (checked under FetchSpec)
\* ------------------------------------------------------------------------
TransientKinds == {"conn", "timeout", "http5xx"}

AllTransient == \A k \in 1..Len(f_hist) : f_hist[k].kind \in TransientKinds

\* C1: a call in which the server answers with a 4xx status makes exactly one
\* GET attempt, sleeps no retry delay and returns the empty string.
C1_ClientErrorNotRetried ==
    (\E k \in 1..Len(f_hist) : f_hist[k].kind = "http4xx")
        => /\ f_attempts = 1
           /\ f_sleeps = 0
           /\ (f_pc = "returned" => f_result = "")

\* C2: a call with retry = N in which every attempt fails with a connection
\* error, a timeout or a 5xx makes exactly N attempts, sleeps exactly N-1 times
\* (between attempts, never after the last one) and returns the empty string.
C2_TransientRetriedNTimes ==
    /\ (f_pc = "returned" /\ f_hist # <<>> /\ AllTransient)
          => /\ f_attempts = f_retry
             /\ f_sleeps = f_retry - 1
             /\ f_result = ""
    /\ (f_hist # <<>> /\ AllTransient) => f_sleeps <= f_attempts
    /\ (f_pc = "sleep" /\ AllTransient) => f_attempts < f_retry

C2_Witness ==
    /\ f_pc = "returned"
    /\ f_retry = 3
    /\ Len(f_hist) = 3
    /\ AllTransient
    /\ f_hist[1].kind = "conn" /\ f_hist[2].kind = "timeout" /\ f_hist[3].kind = "http5xx"
    /\ f_sleeps = 2
    /\ f_result = ""

\* C3: get_page_source never raises to its caller; it returns the body of the
\* first successful attempt, after which no attempt is made, or the empty string.
C3_NeverRaises ==
    /\ ~f_raised
    /\ \A k \in 1..(Len(f_hist) - 1) : f_hist[k].kind # "ok"
    /\ f_pc \in {"loop", "sleep"} => f_result = NoResult
    /\ (f_pc = "returned" /\ f_hist # <<>>)
          => IF f_hist[Len(f_hist)].kind = "ok"
               THEN f_result = f_hist[Len(f_hist)].body
               ELSE f_result = ""
    /\ (f_pc = "returned" /\ f_hist = <<>>) => f_result = ""

C3_Witness ==
    /\ f_pc = "returned"
    /\ Len(f_hist) = 2
    /\ f_hist[1].kind = "http5xx"
    /\ f_hist[2].kind = "ok"
    /\ f_result = "<html>page</html>"
    /\ f_sleeps = 1

\* ------------------------------------------------------------------------
\* Properties of the registry (checked under SelectSpec)
\* ------------------------------------------------------------------------
\* The positions of the list whose class matches the url of the call.
Hits ==
    {k \in 1..Len(sel_handlers) :
        MatchTable(sel_url, sel_plugged)[sel_handlers[k]] = "true"}

\* C8: get_handler_for_site returns the first class of the list, in list order,
\* whose match(url) is true; a class whose match raises counts as a non-match
\* and the search goes on; with no match, an empty url or an empty list the
\* result is None; the call always returns a value and never raises.
C8_FirstMatchingHandler ==
    sel_result # NoResult =>
        /\ sel_result \in HandlerClasses \cup {Plugged, None}
        /\ IF ~Truthy(sel_url) \/ sel_handlers = <<>> \/ Hits = {}
             THEN sel_result = None
             ELSE \E k \in Hits :
                    /\ \A j \in Hits : k <= j
                    /\ sel_result = sel_handlers[k]

C8_Witness ==
    /\ sel_url = UrlMTeam
    /\ sel_handlers = <<NexusPHP, Plugged, MTeam>>
    /\ sel_plugged = "true"
    /\ sel_result = Plugged

\* ------------------------------------------------------------------------
\* Properties of the runs (checked under Spec)
\* ------------------------------------------------------------------------
\* The run has left its loop: the summary step or the return is next.
Ended(r) == pc[r] \in {"post", "ret"}

\* C4: a site for which no loaded handler matched the url and no probe page
\* showed a fingerprint keeps its prior entry unchanged (or keeps having none),
\* in the map of the run and in the file, and the run writes nothing for it.
C4_UnsupportedSiteUntouched ==
    \A r \in Runs : \A s \in noMatch[r] :
        /\ siteData[r][s] = startStore[r][s]
        /\ store[s] = startStore[r][s]
        /\ s \notin saved[r]

C4_Witness ==
    \E r \in Runs : \E s \in noMatch[r] :
        /\ pc[r] = "ret"
        /\ s \in fetched[r]
        /\ startStore[r][s] # NoRec
        /\ store[s] = startStore[r][s]
        /\ saved[r] # {}

\* C5: when a run has ended, every entry the file held at its start for a site
\* the run did not extract and save again is, with the same content, in the map
\* the run returns and in the file, which is what the next run loads.
C5_OldEntriesPreserved ==
    \A r \in Runs : \A s \in Sites :
        (pc[r] = "ret" /\ startStore[r][s] # NoRec /\ s \notin saved[r])
            => /\ siteData[r][s] = startStore[r][s]
               /\ store[s] = startStore[r][s]

C5_Witness ==
    \E r \in Runs : \E s, t \in Sites :
        /\ pc[r] = "ret"
        /\ startStore[r][s] # NoRec
        /\ s \notin saved[r]
        /\ t \in saved[r]
        /\ startStore[r][t] = NoRec
        /\ siteData[r][s] = startStore[r][s]
        /\ store[s] = startStore[r][s]

\* C6: a run started with force-refresh off does, for every site that has a
\* stored record when it starts, no handler lookup, no fetch and no write, and
\* leaves the site's record in the file as it was.
C6_SecondRunIdempotent ==
    \A r \in Runs : \A s \in Sites :
        (pc[r] \in {"loop", "probe", "extract", "post", "ret"}
            /\ ~forceArg[r] /\ startStore[r][s] # NoRec)
            => /\ s \notin lookedUp[r]
               /\ s \notin fetched[r]
               /\ s \notin saved[r]
               /\ store[s] = startStore[r][s]

C6_Witness ==
    \E r \in Runs : \E s \in Sites :
        /\ pc[r] = "ret"
        /\ now = 2
        /\ ~forceArg[r]
        /\ selectedSites = {}
        /\ ~aborted[r]
        /\ startStore[r][s] # NoRec
        /\ s \in visited[r]
        /\ s \notin lookedUp[r]
        /\ store[s] = startStore[r][s]

\* C7: an exception in a step of site i (probing, extraction, saving) does not
\* end the run: unless the run observed the abort flag, every site after i has
\* been visited when the loop is left, and the failing site has written nothing
\* to the file.
C7_SiteErrorContained ==
    \A r \in Runs : \A s \in failed[r] :
        /\ s \notin saved[r]
        /\ store[s] = startStore[r][s]
        /\ (Ended(r) /\ ~aborted[r]) => \A t \in Sites : t > s => t \in visited[r]

C7_Witness ==
    \E r \in Runs :
        /\ pc[r] = "ret"
        /\ ~aborted[r]
        /\ 1 \in failed[r]
        /\ 1 \in fetched[r]
        /\ 2 \in saved[r]

\* C9: a site whose url contains "m-team" is never probed for the generic
\* fingerprints and is extracted with the M-Team handler, never with the
\* NexusPHP handler, in whatever order the handler classes were loaded.
C9_MTeamUsesOwnHandler ==
    \A r \in Runs :
        Contains(curUrl[r], "m-team")
            => /\ pc[r] # "probe"
               /\ pc[r] = "extract" => matched[r] = MTeam

C9_Witness ==
    \E r \in Runs :
        /\ pc[r] = "extract"
        /\ curUrl[r] = UrlMTeam
        /\ siteHandlers = <<NexusPHP, MTeam>>
        /\ matched[r] = MTeam

\* C10: once an abort was requested while a run was active, through abort_run
\* or through the aborttask flag of a configuration, the run looks up, fetches
\* and saves nothing more until it has observed the flag.
C10_AbortStopsExtraction ==
    [][\A r \in Runs :
          (abortAsked[r] /\ ~aborted[r])
              => /\ lookedUp'[r] \subseteq lookedUp[r]
                 /\ fetched'[r] \subseteq fetched[r]
                 /\ saved'[r] \subseteq saved[r]]_vars

\* ------------------------------------------------------------------------
\* Properties of get_inviter_info (checked under HandlerSpec)
\* ------------------------------------------------------------------------
Range(seq) == {seq[k] : k \in 1..Len(seq)}

EmailAsked == CallGetRes("userdetails.php?id=inviter") \in Range(g_calls)

C12_NotFoundIffNoMatch ==
    [][g_pc = "locate" =>
         /\ (g_result' = NotFoundRecord) <=> (FirstRule(g_handler, g_hits) = 0)
         /\ (FirstRule(g_handler, g_hits) # 0) => (g_pc' = "name")]_vars

\* C13: the generic handler uses the first element of the lowest-indexed rule
\* that matches the page; on a page matched by a table-cell rule and by a rule
\* on any element, the element used is the one of the table-cell rule.
C13_FirstRuleWins ==
    (/\ g_handler = NexusPHP
     /\ g_pc \in {"name", "id", "done"}
     /\ \E k \in 1..Len(RuleFamilies) : g_hits[k] # NoElem) =>
        \E k \in 1..Len(RuleFamilies) :
            /\ g_hits[k] # NoElem
            /\ \A j \in 1..(k - 1) : g_hits[j] = NoElem
            /\ g_rule = k
            /\ g_elem = g_hits[k]
            /\ RuleFamilies[1] = "cell"
            /\ RuleFamilies[Len(RuleFamilies)] = "generic"

\* A table-cell rule and a rule on any element match different elements, and
\* the name is extracted from the table cell.
C13_Witness ==
    /\ g_handler = NexusPHP
    /\ g_pc = "id"
    /\ g_hits[1] = "tree"
    /\ g_hits[4] = "leaf"
    /\ g_rule = 1
    /\ g_elem = "tree"

\* C18: the generic handler first asks the resolver for the id of the user and
\* then fetches the profile through get_page_source, at userdetails.php with
\* the resolved id or with id=0.
C18_ResolverThenFetcher ==
    (g_handler = NexusPHP /\ g_calls # <<>>) =>
        /\ g_calls[1] = CallResolver
        /\ Len(g_calls) >= 2
        /\ g_calls[2] \in {CallGetPageSource("userdetails.php?id=uid"),
                           CallGetPageSource("userdetails.php?id=0")}

\* ------------------------------------------------------------------------
\* Properties of the id extraction (checked under IdSpec)
\* ------------------------------------------------------------------------
\* The first href that contains "id=", <<>> when there is none.
FirstIdHref(links) ==
    LET at == {k \in 1..Len(links) : Within(links[k], IdEq)}
    IN  IF at = {} THEN <<>> ELSE links[CHOOSE k \in at : \A j \in at : k <= j]

\* What directly follows the first "id=" of the href, up to the next "&".
ValueAfterId(href) == BeforeFirst(AfterFirst(href, IdEq), <<"&">>)

\* C20: the id is taken from the first href that contains "id="; it is the
\* digit string that directly follows "id=" up to the next "&", or empty, and
\* it is always empty or made of digits.
C20_IdIsValueAfterIdEq ==
    id_result # NotExtracted =>
        /\ id_result \in {<<>>, ValueAfterId(FirstIdHref(id_links))}
        /\ id_result = <<>> \/ IsDigit(id_result)

\* ------------------------------------------------------------------------
\* Properties of the session (checked under SessionSpec)
\* ------------------------------------------------------------------------
\* C19: when a fetch is made with credentials that differ from those of the
\* fetch before it, the session is cleared and rebuilt from the new
\* credentials before the request is sent; with the same credentials the
\* session is reused as it is.
C19_SessionFollowsCredentials ==
    [][(ses_pc = "init" /\ ses_prev # NoInfo) =>
          IF ses_info # ses_prev THEN ses_session' = BuiltSession(ses_info)
          ELSE ses_session' = ses_session]_vars

\* ------------------------------------------------------------------------
\* Properties of the data file (checked under SaveSpec)
\* ------------------------------------------------------------------------
EntryKeys == {"inviter_name", "inviter_id", "inviter_email", "get_time"}

\* C14: whenever no write is in progress, also after a save that failed or
\* was interrupted, the data file holds a whole document, and every entry in
\* it has the four keys inviter_name, inviter_id, inviter_email and get_time.
C14_StoreNeverPartial ==
    sv_pc \in {"idle", "dead"} =>
        /\ sv_file.chunks = Chunks(sv_file.data)
        /\ \A s \in Sites :
              sv_file.data[s] # NoRec => DOMAIN sv_file.data[s] = EntryKeys

\* ------------------------------------------------------------------------
\* Further properties of the run (checked under Spec and ConcSpec)
\* ------------------------------------------------------------------------
\* The positions of a run at or after an abort check of the loop.
Checkpoints == {"loop", "probe", "extract", "post", "ret"}

\* C15: whenever a run stands at an abort check or behind the loop, the map
\* in memory with every record the run has extracted is in the store: the
\* record of site i is written before the abort check of site i+1.
C15_SavedBeforeNextCheck ==
    \A r \in Runs :
        pc[r] \in Checkpoints =>
            \A s \in Sites :
                siteData[r][s] # startStore[r][s] => store = siteData[r]

\* A run that was stopped after it had extracted a record: the record is in
\* the store.
C15_Witness ==
    \E r \in Runs, s \in Sites :
        /\ aborted[r]
        /\ pc[r] = "post"
        /\ s \in saved[r]
        /\ siteData[r][s] # startStore[r][s]
        /\ store[s] = siteData[r][s]

\* C16: when the configured force-refresh flag is on, a run started in either
\* way does not skip a selected site that has a record: the site goes on to
\* the handler lookup.
C16_ForceRefreshReextracts ==
    [][\A r \in Runs :
          (/\ pc[r] = "loop"
           /\ idx[r] \in Sites
           /\ idx[r] \notin visited[r]
           /\ idx[r] \in visited'[r]
           /\ ~NotSelected(idx[r], selectedSites)
           /\ siteData[r][idx[r]] # NoRec
           /\ forceRefresh) => idx[r] \in lookedUp'[r]]_vars

\* The run is inside `for site in sites` (765-1002).
InLoop(r) == pc[r] \in {"loop", "probe", "extract"}

\* C17: at most one run is inside the site loop at any time, whatever
\* init_plugin calls with the run-once flag and cron firings come.
C17_OneRunAtATime == Cardinality({r \in Runs : InLoop(r)}) <= 1

\* ------------------------------------------------------------------------
\* Further properties of get_inviter_info (checked under HandlerSpec)
\* ------------------------------------------------------------------------
\* C21: in the generic handler, a name that equals a placeholder (none, "-")
\* after the cleaning steps is returned as the empty string, whether or not
\* the cleaning changed it.
C21_PlaceholderIsEmpty ==
    (/\ g_handler = NexusPHP
     /\ g_pc \in {"id", "done"}
     /\ CleanName(g_raw) \in Placeholders \ {Anon}) =>
        /\ g_name = <<>>
        /\ (g_pc = "done" /\ g_result \notin {ResNone, ResRaise, NotFoundRecord}) =>
              g_result.inviter_name = <<>>

\* The methods that the majority vote is said to come after.
BeforeVote ==
    {"json", "userdetails_link", "profile_link", "script_vars", "all_links", "hidden_field",
     "meta"}

\* Whether a page gives an id by some method that reads the page.
PageYields(page) == page # PageError /\ page # {}

\* C22: when the resolver ends with an id from the majority vote, JSON
\* parsing, profile anchors, script variables, all-anchor scanning, hidden
\* fields and meta tags all found nothing on that page; when it ends with an
\* id from the session cookies, no candidate page yields an id.
C22_VoteAndCookiesLast ==
    rs_pc = "done" =>
        /\ rs_used = "vote" => rs_pages[rs_page] \cap BeforeVote = {}
        /\ rs_used = "cookie" => \A i \in 1..Len(rs_pages) : ~PageYields(rs_pages[i])

\* C23: at the top of the loop, a site outside a non-empty selection list is
\* passed over with no lookup, no fetch and no change of the store; with an
\* empty list, or for a site in the list, the site goes on to the check of
\* its record and the handler lookup; fetches and saves are made for sites
\* that were looked up only.
C23_SelectionFilter ==
    [][\A r \in Runs :
         LET s == idx[r] IN
         /\ (visited'[r] # visited[r] /\ visited'[r] = visited[r] \cup {s}) =>
              /\ (selectedSites # {} /\ s \notin selectedSites) =>
                    /\ idx'[r] = s + 1
                    /\ pc'[r] = "loop"
                    /\ lookedUp' = lookedUp
                    /\ fetched' = fetched
                    /\ saved' = saved
                    /\ store' = store
              /\ ((selectedSites = {} \/ s \in selectedSites)
                    /\ (forceArg[r] \/ siteData[r][s] = NoRec)) =>
                    s \in lookedUp'[r]
         /\ fetched'[r] \ fetched[r] \subseteq lookedUp[r]
         /\ saved'[r] \ saved[r] \subseteq lookedUp[r]]_vars

\* A run went through all sites under a selection list that names some of
\* them: the sites of the list were looked up and saved, the others not.
C23_Witness ==
    \E r \in Runs :
        /\ pc[r] = "post"
        /\ selectedSites # {}
        /\ selectedSites # Sites
        /\ visited[r] = Sites
        /\ lookedUp[r] = selectedSites
        /\ saved[r] = selectedSites

\* C24: in every state in which no run is active the abort flag is false.
C24_IdleFlagClear == NoRunActive => ~abortFlag

\* C25: a run posts at most one notification, and a run that ended on the
\* abort flag does not post the summary.
C25_OneNotification ==
    \A r \in Runs :
        /\ Len(notes[r]) <= 1
        /\ aborted[r] => "done" \notin Range(notes[r])

\* C26: with notifications on, a run that was not aborted posts the summary
\* at its end exactly when it saved the record of at least one site.
C26_SummaryIffSaved ==
    [][\A r \in Runs :
         (pc[r] = "post" /\ pc'[r] = "ret" /\ notify /\ ~aborted[r]) =>
             ("done" \in Range(notes'[r]) <=> saved[r] # {})]_vars

\* A step of run r from a place where the abort flag is read.
CheckpointStep(r) ==
    /\ InLoop(r)
    /\ idx[r] <= NumSites
    /\ pc'[r] # pc[r] \/ idx'[r] # idx[r]

\* A save leaves the record of every site in the file, and no older one in
\* its place.
RecordsKept ==
    \A s \in Sites :
        store[s] # NoRec =>
            /\ store'[s] # NoRec
            /\ store'[s].get_time >= store[s].get_time

\* A run that was active when abort_run was called stops at its next
\* checkpoint.
AbortStopsAll ==
    \A r \in Runs : (abortAsked[r] /\ CheckpointStep(r)) => aborted'[r]

\* C27: with two runs active, no save removes or reverts a record of the
\* store file, and an abort request stops every run that was active.
C27_ConcurrentRunsSafe == [][RecordsKept /\ AbortStopsAll]_vars

\* C28: with one run at a time, no step removes a site name from the store
\* file, a run whose load of the file failed included.
C28_StoreNeverShrinks ==
    [][\A s \in Sites : store[s] # NoRec => store'[s] # NoRec]_vars

\* C29: whenever a handler instance is about to send a request through its
\* session, the session carries the User-Agent, the Cookie and the Referer of
\* the site_info of the call.
C29_SessionCarriesCredentials ==
    ses_pc \in {"send", "m_send"} =>
        /\ ses_session.ua = ses_info.ua
        /\ ses_session.cookie = ses_info.cookie
        /\ ses_session.referer = ses_info.url

\* The last call was an init_plugin with the plugin enabled and a cron
\* expression that is valid.
LastCallSchedules ==
    /\ sch_calls # <<>>
    /\ LET last == sch_calls[Len(sch_calls)] IN
         /\ last.op = "init"
         /\ last.enabled
         /\ last.cron = "valid"

\* C30: after any sequence of init_plugin and stop_service calls the plugin
\* holds a running scheduler with exactly one job if and only if the last
\* call was an init_plugin with the plugin enabled and a valid cron.
C30_SchedulerFollowsLastCall ==
    (sch_scheduler = "running" /\ sch_jobs = 1) <=> LastCallSchedules

====
